---- MODULE Spec2Model ----
(***************************************************************************)
(* ScrollableFeedVirtualized (src/src/index.tsx): the windowing of a list  *)
(* of fixed-height items and the forceScroll ("auto-follow") flag, as a    *)
(* state machine over the component's instance fields, its props and the   *)
(* scroll offset of its container.                                         *)
(*                                                                         *)
(* Geometry: lengths are whole pixels.  The scroll container (wrapperRef)  *)
(* lies within its parent element (upperParent): its clientHeight is at    *)
(* most the height of the parent's bounding rectangle (less when the       *)
(* parent has padding or a border, or the container shows a horizontal     *)
(* scrollbar), and the parent itself has nothing to scroll.  topRef is the *)
(* first child of the content, so its top is the parent's top minus the    *)
(* container's scrollTop.  The browser keeps scrollTop within              *)
(* 0 .. scrollHeight - clientHeight.                                       *)
(***************************************************************************)
EXTENDS Integers, Sequences, FiniteSets, TLC

VARIABLES
    \* props and host geometry
    hasChildren,        \* props.children (and so children[1]) is present
    numItems,           \* children[1].length
    itemHeight,         \* props.itemHeight
    marginTop,          \* props.marginTop
    windowHeight,       \* upperParent.getBoundingClientRect().height
    clientHeight,       \* wrapperRef.current.clientHeight
    scrollBySupported,  \* element.scrollBy exists
    \* the instance and its DOM
    mounted,            \* componentDidMount has run
    wrapper,            \* wrapperRef.current is an element
    forceScroll,
    startIndexOverride,
    endIndexOverride,
    scrollTop,          \* wrapperRef.current.scrollTop
    scrollEvt,          \* a scroll event raised by a scroll command is pending
    \* what the last operation did
    ev,                 \* the last operation
    repeat,             \* the operation before it was the same one
    preForce,           \* forceScroll before the last operation
    win,                \* the window its render pass computed, if it rendered
    cmds,               \* animateScroll invocations of the last operation
    completes,          \* onScrollComplete invocations of the last operation
    snaps,              \* onSnapBroken invocations of the last operation
    onScrolls,          \* arguments of its onScroll invocations (Variant A)
    pointer,            \* the pointer-down event it handled
    renders,            \* render passes of the last operation
    cdu,                \* forceScroll as each componentDidUpdate of the last operation saw it
    \* a call of the static isViewable
    view                \* its arguments and, once it has returned, its result

props == <<hasChildren, itemHeight, marginTop, windowHeight, clientHeight,
          scrollBySupported>>
inst  == <<mounted, wrapper, forceScroll, startIndexOverride, endIndexOverride,
           scrollTop, scrollEvt>>
hist  == <<ev, repeat, preForce, win, cmds, completes, snaps, onScrolls, pointer,
           renders, cdu>>
vars  == <<props, numItems, inst, hist, view>>

----------------------------------------------------------------------------
\* Bounds of the model
MaxItems        == 4
MaxWindowHeight == 1

\* Values of props.itemHeight and props.marginTop
ItemHeights     == {1, 2}
MarginTops      == {0, 1}

\* Program constants
buffer          == 3
PageUp          == 33
ArrowUp         == 38
ScrollLock      == 145
DefaultGap      == 16

\* Inputs of the handlers: key codes (34 is PageDown, 40 ArrowDown), the container's
\* clientWidth, pointer positions and values of props.scrollBarHorizontalGap
\* (0 stands for a prop that is not given)
KeyCodes        == {PageUp, ArrowUp, ScrollLock, 34, 40}
ClientWidths    == {100}
ClientXs        == {103, 104, 115, 116}
Indexes         == {0, 1, MaxItems}
GapProps        == {0, 4}

Max(a, b) == IF a >= b THEN a ELSE b
Min(a, b) == IF a <= b THEN a ELSE b

NoWin == [rendered |-> FALSE]

\* no call of isViewable
NoView == [parentTop |-> 0, clientHeight |-> 0, childTop |-> 0, hasEpsilon |-> FALSE,
           epsilon |-> 0, returned |-> FALSE, result |-> FALSE]

\* no pointer-down event
NoPointer == [onTarget |-> FALSE, clientX |-> 0, clientWidth |-> 0,
              scrollBarHorizontalGap |-> 0]

----------------------------------------------------------------------------
\* The DOM

\* height of the content: childWrapperHeight
ContentHeight(n) == (itemHeight + marginTop) * n

\* the largest scrollTop the container can have with n items
MaxScrollTop(n) == Max(0, ContentHeight(n) - clientHeight)

Clamp(t, n) == Max(0, Min(t, MaxScrollTop(n)))

\* defaultProps.animateScroll on the scroll container
ScrolledTo(t, offset, n) ==
    IF scrollBySupported THEN Clamp(t + offset, n) ELSE Clamp(offset, n)

\* The running state of one handler: the instance fields, the container's
\* scrollTop and what the handler has done so far.
Cur == [forceScroll        |-> forceScroll,
        startIndexOverride |-> startIndexOverride,
        endIndexOverride   |-> endIndexOverride,
        wrapper            |-> wrapper,
        scrollTop          |-> scrollTop,
        win                |-> NoWin,
        cmds               |-> << >>,
        completes          |-> 0,
        snaps              |-> 0,
        onScrolls          |-> << >>,
        pointer            |-> NoPointer,
        renders            |-> 0,
        cdu                |-> << >>]

\* animateScroll(element, offset); onScrollComplete()
animateScroll(c, by, el, offset, n) ==
    [c EXCEPT !.cmds = Append(@, [by |-> by, el |-> el, offset |-> offset]),
              !.completes = @ + 1,
              !.scrollTop = IF el = "wrapper" THEN ScrolledTo(@, offset, n) ELSE @]

----------------------------------------------------------------------------
\* The component's methods

\* scrollToBottom without the test of wrapperRef.current
scrollToBottom_NoGuard(c, by, n) ==
    animateScroll(c, by, "wrapper", (n + buffer) * itemHeight, n)

\* scrollToBottom(), called by `by`
scrollToBottom(c, by, n) ==
    IF c.wrapper
    THEN animateScroll(c, by, "wrapper", (n + buffer) * itemHeight, n)
    ELSE c

\* render()'s window computation when actualHeight is 0. The divisions are
\* JavaScript's: 0 / 0 is NaN and x / 0 is Infinity for x > 0; Math.floor
\* keeps both, Math.min returns NaN when an argument is NaN, NaN and Infinity
\* stay what they are under + and -, and every comparison with NaN is false.
WindowZeroStride(top, wh, n, so, eo) ==
    LET start0 == IF top = 0 THEN "NaN" ELSE "Infinity"
        start2 == IF so > 0 THEN so ELSE start0
        end2   == IF eo > 0 THEN (IF eo > n - 1 THEN n - 1 ELSE eo)
                  ELSE IF top + wh = 0 THEN "NaN"
                  ELSE IF n - 1 + buffer > n - 1 THEN n - 1 ELSE n - 1 + buffer
    IN  [rendered   |-> TRUE,
         startIndex |-> start2,
         endIndex   |-> end2,
         numItems   |-> n,
         top        |-> top,
         height     |-> wh,
         overStart  |-> so > 0,
         overEnd    |-> eo > 0]

\* Window without the final clamp of endIndex to the last item
Window_NoEndClamp(top, wh, n, so, eo) ==
    LET actualHeight == itemHeight + marginTop
        start0 == (top \div actualHeight) - buffer
        end0   == Min(n - 1, (top + wh) \div actualHeight) + buffer
        start1 == IF start0 < 0 THEN 0 ELSE start0
    IN  [rendered   |-> TRUE,
         startIndex |-> IF so > 0 THEN so ELSE start1,
         endIndex   |-> IF eo > 0 THEN eo ELSE end0,
         numItems   |-> n,
         top        |-> top,
         height     |-> wh,
         overStart  |-> so > 0,
         overEnd    |-> eo > 0]

\* Window without the clamp of a negative startIndex to 0
Window_NoStartClamp(top, wh, n, so, eo) ==
    LET actualHeight == itemHeight + marginTop
        start0 == (top \div actualHeight) - buffer
        end0   == Min(n - 1, (top + wh) \div actualHeight) + buffer
        end1   == IF eo > 0 THEN eo ELSE end0
    IN  [rendered   |-> TRUE,
         startIndex |-> IF so > 0 THEN so ELSE start0,
         endIndex   |-> IF end1 > n - 1 THEN n - 1 ELSE end1,
         numItems   |-> n,
         top        |-> top,
         height     |-> wh,
         overStart  |-> so > 0,
         overEnd    |-> eo > 0]

\* Window without the buffer added to endIndex
Window_EndNoBuffer(top, wh, n, so, eo) ==
    LET actualHeight == itemHeight + marginTop
        start0 == (top \div actualHeight) - buffer
        end0   == Min(n - 1, (top + wh) \div actualHeight)
        start1 == IF start0 < 0 THEN 0 ELSE start0
        end1   == IF eo > 0 THEN eo ELSE end0
    IN  [rendered   |-> TRUE,
         startIndex |-> IF so > 0 THEN so ELSE start1,
         endIndex   |-> IF end1 > n - 1 THEN n - 1 ELSE end1,
         numItems   |-> n,
         top        |-> top,
         height     |-> wh,
         overStart  |-> so > 0,
         overEnd    |-> eo > 0]

\* render(): the window computation, from the scroll offset `top`, the
\* viewport height wh, the item count n and the two stored overrides
Window(top, wh, n, so, eo) ==
    IF itemHeight + marginTop = 0 THEN WindowZeroStride(top, wh, n, so, eo) ELSE
    LET actualHeight == itemHeight + marginTop
        start0 == (top \div actualHeight) - buffer
        end0   == Min(n - 1, (top + wh) \div actualHeight) + buffer
        start1 == IF start0 < 0 THEN 0 ELSE start0
        start2 == IF so > 0 THEN so ELSE start1
        end1   == IF eo > 0 THEN eo ELSE end0
        end2   == IF end1 > n - 1 THEN n - 1 ELSE end1
    IN  [rendered   |-> TRUE,
         startIndex |-> start2,
         endIndex   |-> end2,
         numItems   |-> n,
         top        |-> top,
         height     |-> wh,
         overStart  |-> so > 0,
         overEnd    |-> eo > 0]

\* render() that applies the overrides and leaves them stored
render_KeepOverride(c, n) ==
    IF ~hasChildren
    THEN [c EXCEPT !.renders = @ + 1, !.win = NoWin]
    ELSE
    LET c1 == IF c.wrapper
              THEN animateScroll(c, "render", "upperParent",
                                 (n + buffer) * itemHeight, n)
              ELSE c
    IN  [c1 EXCEPT !.renders = @ + 1,
                   !.win = Window(c.scrollTop, IF c.wrapper THEN windowHeight ELSE 0,
                                  n, c.startIndexOverride, c.endIndexOverride)]

\* render()
render(c, n) ==
    IF ~hasChildren
    THEN [c EXCEPT !.renders = @ + 1, !.win = NoWin]
    ELSE
    LET upperParentTop == 10
        windowHeightR == IF c.wrapper THEN windowHeight ELSE 0
        windowTop     == IF c.wrapper THEN upperParentTop ELSE 0
        c1 == IF c.wrapper
              THEN animateScroll(c, "render", "upperParent",
                                 (n + buffer) * itemHeight, n)
              ELSE c
        topRectTop == upperParentTop - c.scrollTop
        top == IF c.wrapper /\ topRectTop < windowTop
               THEN windowTop - topRectTop ELSE 0
        w == Window(top, windowHeightR, n, c.startIndexOverride, c.endIndexOverride)
    IN  [c1 EXCEPT !.renders = @ + 1,
                   !.win = w,
                   !.startIndexOverride = IF @ > 0 THEN 0 ELSE @,
                   !.endIndexOverride = IF @ > 0 THEN 0 ELSE @]

\* React attaches the refs when it commits the rendered tree
commit(c) == [c EXCEPT !.wrapper = hasChildren]

\* componentDidUpdate that scrolls whatever forceScroll is
componentDidUpdate_Always(c, n) ==
    scrollToBottom([c EXCEPT !.cdu = Append(@, c.forceScroll)], "componentDidUpdate", n)

componentDidUpdate(c, n) ==
    LET c1 == [c EXCEPT !.cdu = Append(@, c.forceScroll)]
    IN  IF c.forceScroll THEN scrollToBottom(c1, "componentDidUpdate", n) ELSE c1

componentDidMount(c, n) == scrollToBottom(c, "componentDidMount", n)

\* one update cycle: render, commit, componentDidUpdate
updateCycle(c, n) == componentDidUpdate(commit(render(c, n)), n)

\* handleKeyDown without the ArrowUp case
handleKeyDown_NoArrowUp(c, keyCode) ==
    IF keyCode = PageUp
    THEN [c EXCEPT !.forceScroll = FALSE, !.snaps = @ + 1]
    ELSE IF keyCode = ScrollLock
    THEN [c EXCEPT !.forceScroll = ~@, !.snaps = @ + 1]
    ELSE c

\* handleKeyDown whose ScrollLock case detaches instead of flipping
handleKeyDown_LockDetaches(c, keyCode) ==
    IF keyCode \in {PageUp, ArrowUp, ScrollLock}
    THEN [c EXCEPT !.forceScroll = FALSE, !.snaps = @ + 1]
    ELSE c

handleKeyDown(c, keyCode) ==
    IF keyCode \in {PageUp, ArrowUp}
    THEN [c EXCEPT !.forceScroll = FALSE, !.snaps = @ + 1]
    ELSE IF keyCode = ScrollLock
    THEN [c EXCEPT !.forceScroll = ~@, !.snaps = @ + 1]
    ELSE c

handleMouseWheel(c) == [c EXCEPT !.forceScroll = FALSE, !.snaps = @ + 1]

\* handleMouseDown that does not compare e.target with the container
handleMouseDown_AnyTarget(c, onTarget, clientX, clientWidth, scrollBarHorizontalGap) ==
    LET gap == IF scrollBarHorizontalGap # 0 THEN scrollBarHorizontalGap ELSE DefaultGap
    IN  IF (clientX - gap) >= clientWidth
        THEN [c EXCEPT !.forceScroll = FALSE, !.snaps = @ + 1]
        ELSE c

\* handleMouseDown(e): onTarget is wrapperRef.current === e.target
handleMouseDown(c, onTarget, clientX, clientWidth, scrollBarHorizontalGap) ==
    LET gap == IF scrollBarHorizontalGap # 0 THEN scrollBarHorizontalGap ELSE DefaultGap
    IN  IF onTarget /\ (clientX - gap) >= clientWidth
        THEN [c EXCEPT !.forceScroll = FALSE, !.snaps = @ + 1]
        ELSE c

\* isViewable that leaves epsilon out of the test of the bottom
isViewable_NoEpsilon(parentTop, parentClientHeight, childTop, hasEpsilon, epsilon) ==
    LET childTopIsViewable == childTop >= parentTop
        childOffsetToParentBottom == parentTop + parentClientHeight - childTop
        childBottomIsViewable == childOffsetToParentBottom >= 0
    IN  childTopIsViewable /\ childBottomIsViewable

\* isViewable(parent, child, epsilon), from the tops of the two bounding
\* rectangles and the parent's clientHeight; hasEpsilon is FALSE for an
\* epsilon that is undefined, which `epsilon || 0` turns into 0 as it does 0
isViewable(parentTop, parentClientHeight, childTop, hasEpsilon, epsilon) ==
    LET eps == IF hasEpsilon /\ epsilon # 0 THEN epsilon ELSE 0
        childTopIsViewable == childTop >= parentTop
        childOffsetToParentBottom == parentTop + parentClientHeight - childTop
        childBottomIsViewable == childOffsetToParentBottom + eps >= 0
    IN  childTopIsViewable /\ childBottomIsViewable

\* Variant A (src/unnamed/part_000): the same component, whose handlers call
\* no onSnapBroken and whose handleScroll reports to onScroll
handleKeyDownA(c, keyCode) ==
    IF keyCode \in {PageUp, ArrowUp}
    THEN [c EXCEPT !.forceScroll = FALSE]
    ELSE IF keyCode = ScrollLock
    THEN [c EXCEPT !.forceScroll = ~@]
    ELSE c

handleMouseWheelA(c) == [c EXCEPT !.forceScroll = FALSE]

handleMouseDownA(c, onTarget, clientX, clientWidth, scrollBarHorizontalGap) ==
    LET gap == IF scrollBarHorizontalGap # 0 THEN scrollBarHorizontalGap ELSE DefaultGap
    IN  IF onTarget /\ (clientX - gap) >= clientWidth
        THEN [c EXCEPT !.forceScroll = FALSE]
        ELSE c

handleScrollA(c) ==
    IF ~c.forceScroll THEN [c EXCEPT !.onScrolls = Append(@, TRUE)] ELSE c

\* handleScroll that re-enters Following before it renders
handleScroll_Refollow(c, n) ==
    componentDidUpdate(commit(render([c EXCEPT !.forceScroll = TRUE], n)), n)

\* handleScroll(): this.forceUpdate()
handleScroll(c, n) == updateCycle(c, n)

\* scrollToIndex that stores the index as a pending start override
scrollToIndex_SetsOverride(c, startIndex, n) ==
    IF c.wrapper
    THEN animateScroll([c EXCEPT !.startIndexOverride = startIndex],
            "scrollToIndex", "wrapper",
            (startIndex + (windowHeight \div (itemHeight + marginTop)) + 2 * buffer)
                * itemHeight, n)
    ELSE c

scrollToIndex(c, startIndex, n) ==
    IF c.wrapper
    THEN animateScroll(c, "scrollToIndex", "wrapper",
            (startIndex + (windowHeight \div (itemHeight + marginTop)) + 2 * buffer)
                * itemHeight, n)
    ELSE c

\* jumpToBottom that does not set forceScroll
jumpToBottom_NoFollow(c, batched, n) ==
    IF ~c.wrapper THEN c
    ELSE
    LET c1 == [c EXCEPT
                 !.startIndexOverride =
                     n - (windowHeight \div (itemHeight + marginTop)) - buffer,
                 !.endIndexOverride = n - 1]
    IN  IF batched
        THEN componentDidUpdate(commit(render(scrollToBottom(c1, "jumpToBottom", n), n)), n)
        ELSE scrollToBottom(componentDidUpdate(commit(render(c1, n)), n),
                            "jumpToBottom", n)

\* jumpToBottom().  this.forceUpdate() renders at once when the call comes
\* from outside a React event handler, and after the caller's handler has
\* returned (batched) when it comes from inside one.
jumpToBottom(c, batched, n) ==
    IF ~c.wrapper THEN c
    ELSE
    LET c1 == [c EXCEPT
                 !.startIndexOverride =
                     n - (windowHeight \div (itemHeight + marginTop)) - buffer,
                 !.endIndexOverride = n - 1]
    IN  IF batched
        THEN updateCycle(scrollToBottom([c1 EXCEPT !.forceScroll = TRUE],
                                        "jumpToBottom", n), n)
        ELSE scrollToBottom([updateCycle(c1, n) EXCEPT !.forceScroll = TRUE],
                            "jumpToBottom", n)

----------------------------------------------------------------------------
\* The state machine

Init ==
    /\ hasChildren \in BOOLEAN
    /\ numItems \in 0 .. MaxItems
    /\ (~hasChildren => numItems = 0)
    /\ itemHeight \in ItemHeights
    /\ marginTop \in MarginTops
    /\ windowHeight \in 0 .. MaxWindowHeight
    /\ clientHeight \in 0 .. windowHeight
    /\ scrollBySupported = TRUE
    /\ mounted = FALSE
    /\ wrapper = FALSE
    /\ forceScroll = TRUE
    /\ startIndexOverride = 0
    /\ endIndexOverride = 0
    /\ scrollTop = 0
    /\ scrollEvt = FALSE
    /\ win = NoWin
    /\ ev = [op |-> "constructor", arg |-> 0]
    /\ repeat = FALSE
    /\ preForce = TRUE
    /\ cmds = << >>
    /\ completes = 0
    /\ snaps = 0
    /\ onScrolls = << >>
    /\ pointer = NoPointer
    /\ view = NoView
    /\ renders = 0
    /\ cdu = << >>

\* the handler ends in state c; `from` is the scroll offset it started with
Done(c, e, from, pending) ==
    /\ wrapper' = c.wrapper
    /\ forceScroll' = c.forceScroll
    /\ startIndexOverride' = c.startIndexOverride
    /\ endIndexOverride' = c.endIndexOverride
    /\ scrollTop' = c.scrollTop
    /\ scrollEvt' = (pending \/ c.scrollTop # from)
    /\ win' = c.win
    /\ ev' = e
    /\ repeat' = (e = ev)
    /\ preForce' = forceScroll
    /\ cmds' = c.cmds
    /\ completes' = c.completes
    /\ snaps' = c.snaps
    /\ onScrolls' = c.onScrolls
    /\ pointer' = c.pointer
    /\ renders' = c.renders
    /\ cdu' = c.cdu
    /\ UNCHANGED <<props, view>>

Mount ==
    /\ ~mounted
    /\ mounted' = TRUE
    /\ Done(componentDidMount(commit(render(Cur, numItems)), numItems),
            [op |-> "mount", arg |-> 0], scrollTop, scrollEvt)
    /\ UNCHANGED numItems

\* the host renders the feed again, with k more items at the end
Update(k) ==
    /\ mounted
    /\ hasChildren \/ k = 0
    /\ numItems + k <= MaxItems
    /\ numItems' = numItems + k
    /\ Done(updateCycle(Cur, numItems + k), [op |-> "update", arg |-> k],
            scrollTop, scrollEvt)
    /\ UNCHANGED mounted

KeyDown(keyCode) ==
    /\ mounted /\ wrapper
    /\ Done(handleKeyDown(Cur, keyCode), [op |-> "keydown", arg |-> keyCode],
            scrollTop, scrollEvt)
    /\ UNCHANGED <<mounted, numItems>>

Wheel ==
    /\ mounted /\ wrapper
    /\ Done(handleMouseWheel(Cur), [op |-> "wheel", arg |-> 0], scrollTop, scrollEvt)
    /\ UNCHANGED <<mounted, numItems>>

MouseDown(onTarget, clientX, clientWidth, gapProp) ==
    /\ mounted /\ wrapper
    /\ Done(handleMouseDown(Cur, onTarget, clientX, clientWidth, gapProp),
            [op |-> "mousedown",
             arg |-> IF onTarget /\ clientX - (IF gapProp # 0 THEN gapProp ELSE DefaultGap)
                                      >= clientWidth
                     THEN 1 ELSE 0],
            scrollTop, scrollEvt)
    /\ UNCHANGED <<mounted, numItems>>

\* the user moves the container to offset t; its scroll event is handled
UserScroll(t) ==
    /\ mounted /\ wrapper
    /\ t # scrollTop
    /\ t <= MaxScrollTop(numItems)
    /\ Done(handleScroll([Cur EXCEPT !.scrollTop = t], numItems),
            [op |-> "scroll", arg |-> 1], t, FALSE)
    /\ UNCHANGED <<mounted, numItems>>

\* the scroll event raised by a scroll command is handled
ScrollEvent ==
    /\ mounted /\ wrapper
    /\ scrollEvt
    /\ Done(handleScroll(Cur, numItems), [op |-> "scroll", arg |-> 0],
            scrollTop, FALSE)
    /\ UNCHANGED <<mounted, numItems>>

ScrollToBottom ==
    /\ mounted
    /\ Done(scrollToBottom(Cur, "scrollToBottom", numItems),
            [op |-> "scrollToBottom", arg |-> 0], scrollTop, scrollEvt)
    /\ UNCHANGED <<mounted, numItems>>

ScrollToIndex(i) ==
    /\ mounted
    /\ Done(scrollToIndex(Cur, i, numItems),
            [op |-> "scrollToIndex", arg |-> i], scrollTop, scrollEvt)
    /\ UNCHANGED <<mounted, numItems>>

JumpToBottom(batched) ==
    /\ mounted
    /\ Done(jumpToBottom(Cur, batched, numItems),
            [op |-> "jumpToBottom", arg |-> IF batched THEN 1 ELSE 0],
            scrollTop, scrollEvt)
    /\ UNCHANGED <<mounted, numItems>>

Next ==
    \/ Mount
    \/ \E k \in {0, 1} : Update(k)
    \/ \E keyCode \in KeyCodes : KeyDown(keyCode)
    \/ Wheel
    \/ \E onTarget \in BOOLEAN, clientX \in ClientXs, clientWidth \in ClientWidths,
          gapProp \in GapProps : MouseDown(onTarget, clientX, clientWidth, gapProp)
    \/ \E t \in 0 .. MaxScrollTop(numItems) : UserScroll(t)
    \/ ScrollEvent
    \/ ScrollToBottom
    \/ \E i \in Indexes : ScrollToIndex(i)
    \/ \E batched \in BOOLEAN : JumpToBottom(batched)

Spec == Init /\ [][Next]_vars

\* Variant A
KeyDownA(keyCode) ==
    /\ mounted /\ wrapper
    /\ Done(handleKeyDownA(Cur, keyCode), [op |-> "keydown", arg |-> keyCode],
            scrollTop, scrollEvt)
    /\ UNCHANGED <<mounted, numItems>>

WheelA ==
    /\ mounted /\ wrapper
    /\ Done(handleMouseWheelA(Cur), [op |-> "wheel", arg |-> 0], scrollTop, scrollEvt)
    /\ UNCHANGED <<mounted, numItems>>

MouseDownA(onTarget, clientX, clientWidth, gapProp) ==
    /\ mounted /\ wrapper
    /\ Done(handleMouseDownA(Cur, onTarget, clientX, clientWidth, gapProp),
            [op |-> "mousedown",
             arg |-> IF onTarget /\ clientX - (IF gapProp # 0 THEN gapProp ELSE DefaultGap)
                                      >= clientWidth
                     THEN 1 ELSE 0],
            scrollTop, scrollEvt)
    /\ UNCHANGED <<mounted, numItems>>

UserScrollA(t) ==
    /\ mounted /\ wrapper
    /\ t # scrollTop
    /\ t <= MaxScrollTop(numItems)
    /\ Done(handleScrollA([Cur EXCEPT !.scrollTop = t]),
            [op |-> "scroll", arg |-> 1], t, FALSE)
    /\ UNCHANGED <<mounted, numItems>>

ScrollEventA ==
    /\ mounted /\ wrapper
    /\ scrollEvt
    /\ Done(handleScrollA(Cur), [op |-> "scroll", arg |-> 0], scrollTop, FALSE)
    /\ UNCHANGED <<mounted, numItems>>

NextA ==
    \/ Mount
    \/ \E k \in {0, 1} : Update(k)
    \/ \E keyCode \in KeyCodes : KeyDownA(keyCode)
    \/ WheelA
    \/ \E onTarget \in BOOLEAN, clientX \in ClientXs, clientWidth \in ClientWidths,
          gapProp \in GapProps : MouseDownA(onTarget, clientX, clientWidth, gapProp)
    \/ \E t \in 0 .. MaxScrollTop(numItems) : UserScrollA(t)
    \/ ScrollEventA
    \/ ScrollToBottom
    \/ \E batched \in BOOLEAN : JumpToBottom(batched)

SpecA == Init /\ [][NextA]_vars

\* A feed of 20-pixel items in a 100-pixel viewport, scrolled by the user
\* to a few offsets
ScenarioTops == {0, 30, 100, 400, 410, 500, 900}

InitScenario ==
    /\ hasChildren = TRUE
    /\ numItems \in {25, 50}
    /\ itemHeight = 20
    /\ marginTop \in {0, 5}
    /\ windowHeight \in {90, 100}
    /\ clientHeight = windowHeight
    /\ scrollBySupported = TRUE
    /\ mounted = FALSE
    /\ wrapper = FALSE
    /\ forceScroll = TRUE
    /\ startIndexOverride = 0
    /\ endIndexOverride = 0
    /\ scrollTop = 0
    /\ scrollEvt = FALSE
    /\ win = NoWin
    /\ ev = [op |-> "constructor", arg |-> 0]
    /\ repeat = FALSE
    /\ preForce = TRUE
    /\ cmds = << >>
    /\ completes = 0
    /\ snaps = 0
    /\ onScrolls = << >>
    /\ pointer = NoPointer
    /\ view = NoView
    /\ renders = 0
    /\ cdu = << >>

NextScenario ==
    \/ Mount
    \/ Wheel
    \/ \E t \in ScenarioTops : UserScroll(t)
    \/ \E batched \in BOOLEAN : JumpToBottom(batched)

SpecScenario == InitScenario /\ [][NextScenario]_vars

----------------------------------------------------------------------------
\* Properties

ScrollLockEv == [op |-> "keydown", arg |-> ScrollLock]

\* the scroll-to-bottom command, as method `by` issues it on the container
BottomCmd(by) == [by |-> by, el |-> "wrapper", offset |-> (numItems + buffer) * itemHeight]

Issued(cmd) == \E i \in 1 .. Len(cmds) : cmds[i] = cmd

\* C1: an update that follows a wheel event (container attached, items
\* present) ends Detached and issues no scroll command, neither in its render
\* pass nor in componentDidUpdate.
C1_WheelUpdateNoCommand ==
    [][(ev.op = "wheel" /\ ev'.op = "update" /\ wrapper /\ numItems' > 0)
          => (~forceScroll' /\ cmds' = << >>)]_vars

\* C2: scrollToBottom() followed by an update with unchanged props (container
\* attached) ends Following, with exactly one scroll command over the two.
C2_ScrollToBottomRoundTrip ==
    [][(ev.op = "scrollToBottom" /\ wrapper /\ ev' = [op |-> "update", arg |-> 0])
          => (forceScroll' /\ Len(cmds) + Len(cmds') = 1)]_vars

\* C3: every render pass computes 0 <= startIndex <= endIndex <= itemCount-1
\* when there are items, and an empty window exactly when there are none.
C3_WindowInRange ==
    win.rendered =>
        /\ win.numItems > 0 =>
              /\ 0 <= win.startIndex
              /\ win.startIndex <= win.endIndex
              /\ win.endIndex <= win.numItems - 1
        /\ (win.startIndex > win.endIndex) <=> (win.numItems = 0)

\* a render pass with items, away from the top, that applied both overrides
C3_Witness ==
    /\ win.rendered /\ win.numItems > 0 /\ win.top > 0
    /\ win.overStart /\ win.overEnd
    /\ win.startIndex <= win.endIndex

\* C4: the render pass of jumpToBottom() uses endIndex = itemCount-1 and
\* startIndex = max(0, itemCount - floor(viewportHeight/stride) - buffer).
C4_JumpWindow ==
    (ev.op = "jumpToBottom" /\ win.rendered) =>
        /\ win.endIndex = numItems - 1
        /\ win.startIndex =
              Max(0, numItems - (windowHeight \div (itemHeight + marginTop)) - buffer)

\* C5: an override is used by the render pass of its jumpToBottom() alone:
\* that call renders once, no positive override is stored after a render, and
\* the render pass of any other operation computes its window from the
\* scroll offset alone.
C5_OverrideOneShot ==
    /\ startIndexOverride <= 0 /\ endIndexOverride <= 0
    /\ ev.op = "jumpToBottom" => renders <= 1
    /\ (win.rendered /\ ev.op # "jumpToBottom") =>
          /\ ~win.overStart /\ ~win.overEnd
          /\ win = Window(win.top, win.height, win.numItems, 0, 0)

\* the render pass of a jumpToBottom() applied both overrides and cleared them
C5_Witness ==
    /\ ev.op = "jumpToBottom" /\ win.rendered /\ renders = 1
    /\ win.overStart /\ win.overEnd
    /\ startIndexOverride = 0 /\ endIndexOverride = 0

\* C6: the constructor leaves forceScroll set; mount with the container
\* attached issues the scroll-to-bottom command and stays Following;
\* componentDidUpdate issues it exactly when forceScroll is set as it runs.
C6_MountAndUpdateFollow ==
    /\ ev.op = "constructor" => forceScroll
    /\ (ev.op = "mount" /\ wrapper) =>
          forceScroll /\ Issued(BottomCmd("componentDidMount"))
    /\ (wrapper /\ cdu # << >>) =>
          /\ Len(cdu) = 1
          /\ cdu[1] <=> Issued(BottomCmd("componentDidUpdate"))

\* an update commit while Detached: componentDidUpdate ran and issued nothing
C6_Witness ==
    /\ ev.op = "update" /\ wrapper /\ cdu = <<FALSE>>
    /\ ~Issued(BottomCmd("componentDidUpdate"))
    /\ numItems > 0

\* C7: Page-Up, Arrow-Up and wheel leave the state Detached and call
\* onSnapBroken once; a key other than 33, 38 and 145 changes nothing and
\* calls nothing.
C7_KeysAndWheelDetach ==
    /\ ((ev.op = "keydown" /\ ev.arg \in {PageUp, ArrowUp}) \/ ev.op = "wheel") =>
          ~forceScroll /\ snaps = 1
    /\ (ev.op = "keydown" /\ ev.arg \notin {PageUp, ArrowUp, ScrollLock}) =>
          forceScroll = preForce /\ snaps = 0 /\ cmds = << >>

\* Arrow-Up pressed while Following
C7_Witness ==
    ev = [op |-> "keydown", arg |-> ArrowUp] /\ preForce /\ ~forceScroll /\ snaps = 1

\* C8: ScrollLock flips forceScroll and calls onSnapBroken once, in both
\* directions; two ScrollLock keydowns in a row restore forceScroll.
C8_ScrollLockFlips ==
    /\ [](ev = ScrollLockEv => (forceScroll = ~preForce /\ snaps = 1))
    /\ [][(ev = ScrollLockEv /\ ev' = ScrollLockEv) => forceScroll' = preForce]_vars

\* the second of two ScrollLock keydowns in a row, ending Detached
C8_Witness ==
    ev = ScrollLockEv /\ repeat /\ preForce /\ ~forceScroll

\* C9 as stated: forceScroll is restored only by scrollToBottom() or
\* jumpToBottom().
C9_RestoredOnlyByBottomScroll ==
    /\ ev.op = "scroll" => forceScroll = preForce
    /\ (preForce /\ ~forceScroll) =>
          \/ ev.op = "keydown" /\ ev.arg \in {PageUp, ArrowUp, ScrollLock}
          \/ ev.op = "wheel"
          \/ ev = [op |-> "mousedown", arg |-> 1]
    /\ (~preForce /\ forceScroll) => ev.op \in {"scrollToBottom", "jumpToBottom"}

\* C9, amended: a scroll event never changes forceScroll; it is cleared only
\* by Page-Up, Arrow-Up, ScrollLock, wheel or a pointer-down in the gutter;
\* it is restored only by scrollToBottom(), jumpToBottom() or ScrollLock.
C9_AnchorChangesOnlyOnInteraction ==
    /\ ev.op = "scroll" => forceScroll = preForce
    /\ (preForce /\ ~forceScroll) =>
          \/ ev.op = "keydown" /\ ev.arg \in {PageUp, ArrowUp, ScrollLock}
          \/ ev.op = "wheel"
          \/ ev = [op |-> "mousedown", arg |-> 1]
    /\ (~preForce /\ forceScroll) =>
          \/ ev.op \in {"scrollToBottom", "jumpToBottom"}
          \/ ev = ScrollLockEv

\* a scroll event handled while Detached: the state stays Detached
C9_Witness ==
    ev.op = "scroll" /\ ~preForce /\ ~forceScroll /\ win.rendered

\* C10: jumpToBottom() with the container attached ends Following, has
\* rendered, and has issued the scroll-to-bottom command on the container.
C10_JumpRefollows ==
    (ev.op = "jumpToBottom" /\ wrapper) =>
        /\ forceScroll
        /\ renders >= 1 /\ win.rendered
        /\ Issued(BottomCmd("jumpToBottom"))

\* jumpToBottom() called while Detached
C10_Witness ==
    /\ ev.op = "jumpToBottom" /\ wrapper /\ ~preForce /\ forceScroll
    /\ renders = 1

\* C11 as stated: mount, an update commit while Following, scrollToBottom(),
\* jumpToBottom() and scrollToIndex(i), with the container attached, each
\* invoke animateScroll exactly once and onScrollComplete once.
C11_OneCommandPerEvent ==
    (wrapper /\ (\/ ev.op \in {"mount", "scrollToBottom", "jumpToBottom", "scrollToIndex"}
                 \/ ev.op = "update" /\ preForce)) =>
        Len(cmds) = 1 /\ completes = 1

\* C12: scrollToIndex(i) leaves forceScroll and both overrides as they were;
\* with the container attached it issues one scroll command, followed by one
\* onScrollComplete, and does nothing else.
C12_ScrollToIndexFrame ==
    [][ev'.op = "scrollToIndex" =>
          /\ forceScroll' = forceScroll
          /\ startIndexOverride' = startIndexOverride
          /\ endIndexOverride' = endIndexOverride
          /\ snaps' = 0 /\ renders' = 0 /\ cdu' = << >>
          /\ wrapper =>
                /\ completes' = 1
                /\ cmds' = << [by |-> "scrollToIndex", el |-> "wrapper",
                              offset |-> (ev'.arg
                                  + (windowHeight \div (itemHeight + marginTop))
                                  + 2 * buffer) * itemHeight] >>]_vars

\* scrollToIndex of a positive index while Detached, a jump's start left stored
C12_Witness ==
    /\ ev.op = "scrollToIndex" /\ ev.arg > 0 /\ wrapper
    /\ ~forceScroll /\ startIndexOverride < 0
    /\ Len(cmds) = 1 /\ completes = 1

\* C13: while wrapperRef.current is null, mount, update, scrollToBottom(),
\* jumpToBottom() and scrollToIndex(i) issue no scroll command, call no
\* callback and leave forceScroll and both overrides as they were.
C13_NoContainerNoOp ==
    [][(~wrapper /\ ~wrapper'
        /\ ev'.op \in {"mount", "update", "scrollToBottom", "jumpToBottom",
                       "scrollToIndex"}) =>
          /\ cmds' = << >> /\ completes' = 0 /\ snaps' = 0
          /\ forceScroll' = forceScroll
          /\ startIndexOverride' = startIndexOverride
          /\ endIndexOverride' = endIndexOverride
          /\ scrollTop' = scrollTop]_vars

\* jumpToBottom() called on a mounted component that has no container
C13_Witness ==
    /\ ev.op = "jumpToBottom" /\ mounted /\ ~wrapper
    /\ cmds = << >> /\ completes = 0
    /\ startIndexOverride = 0 /\ endIndexOverride = 0

\* C14: every index the render pass materializes lies in 0 .. itemCount-1.
C14_IndicesInList ==
    win.rendered =>
        \A i \in win.startIndex .. win.endIndex : i \in 0 .. win.numItems - 1

\* a render pass after an append that materializes the last item through an
\* override
C14_Witness ==
    /\ win.rendered /\ win.overEnd /\ win.overStart
    /\ win.endIndex = win.numItems - 1
    /\ win.startIndex .. win.endIndex # {}
    /\ win.numItems = MaxItems

\* the render pass of the scenario: itemHeight 20, marginTop 0, viewport
\* height 100, 50 items, scroll offset 400, no override
C15_Scenario ==
    /\ win.rendered /\ itemHeight = 20 /\ marginTop = 0
    /\ win.height = 100 /\ win.numItems = 50 /\ win.top = 400
    /\ ~win.overStart /\ ~win.overEnd

\* C15 as stated: the scenario's render pass computes the window [17, 27].
C15_ScenarioWindow17to27 ==
    C15_Scenario => (win.startIndex = 17 /\ win.endIndex = 27)

\* C15, amended: the scenario's render pass computes the window [17, 28]
\* (floor(500/20) = 25, plus the buffer of 3).
C15_ScenarioWindow17to28 ==
    C15_Scenario => (win.startIndex = 17 /\ win.endIndex = 28)

\* the scenario's render pass, in a scroll event handled while Detached
C15_Witness ==
    C15_Scenario /\ ev.op = "scroll" /\ ~forceScroll /\ scrollTop = 400

\* C19: with no override and items present, startIndex is
\* max(0, floor(top/stride) - buffer) and endIndex is
\* min(itemCount-1, min(itemCount-1, floor((top+viewportHeight)/stride)) + buffer).
C19_BaseWindow ==
    (win.rendered /\ ~win.overStart /\ ~win.overEnd /\ win.numItems > 0) =>
        /\ win.startIndex =
              Max(0, (win.top \div (itemHeight + marginTop)) - buffer)
        /\ win.endIndex =
              Min(win.numItems - 1,
                  Min(win.numItems - 1,
                      (win.top + win.height) \div (itemHeight + marginTop)) + buffer)

\* a render pass away from the top whose window ends before the last item
C19_Witness ==
    /\ win.rendered /\ ~win.overStart /\ ~win.overEnd
    /\ win.top > 0 /\ win.startIndex > 0
    /\ win.endIndex < win.numItems - 1

\* The component under a zero stride: the default props (itemHeight 0,
\* marginTop 0), and a margin that cancels the item height. The content is 0
\* pixels high, so the container never scrolls; jumpToBottom() and
\* scrollToIndex() are left to the host.
ZeroStrides == {<<0, 0>>, <<1, -1>>}

InitDefault ==
    /\ hasChildren \in BOOLEAN
    /\ numItems \in 0 .. MaxItems
    /\ (~hasChildren => numItems = 0)
    /\ \E z \in ZeroStrides : itemHeight = z[1] /\ marginTop = z[2]
    /\ windowHeight \in 0 .. MaxWindowHeight
    /\ clientHeight \in 0 .. windowHeight
    /\ scrollBySupported = TRUE
    /\ mounted = FALSE
    /\ wrapper = FALSE
    /\ forceScroll = TRUE
    /\ startIndexOverride = 0
    /\ endIndexOverride = 0
    /\ scrollTop = 0
    /\ scrollEvt = FALSE
    /\ win = NoWin
    /\ ev = [op |-> "constructor", arg |-> 0]
    /\ repeat = FALSE
    /\ preForce = TRUE
    /\ cmds = << >>
    /\ completes = 0
    /\ snaps = 0
    /\ onScrolls = << >>
    /\ pointer = NoPointer
    /\ view = NoView
    /\ renders = 0
    /\ cdu = << >>

NextDefault ==
    \/ Mount
    \/ \E k \in {0, 1} : Update(k)
    \/ \E keyCode \in KeyCodes : KeyDown(keyCode)
    \/ Wheel
    \/ \E onTarget \in BOOLEAN, clientX \in ClientXs, clientWidth \in ClientWidths,
          gapProp \in GapProps : MouseDown(onTarget, clientX, clientWidth, gapProp)
    \/ ScrollToBottom

SpecDefault == InitDefault /\ [][NextDefault]_vars

\* Pointer-down events across the container's right edge, each recorded with
\* its coordinates, next to the operations that change the anchor state
PointerXs == {90, 99, 103, 104, 105, 115, 116, 117, 130}

PointerDown(onTarget, clientX, clientWidth, gapProp) ==
    /\ mounted /\ wrapper
    /\ Done(handleMouseDown([Cur EXCEPT !.pointer =
                                 [onTarget |-> onTarget, clientX |-> clientX,
                                  clientWidth |-> clientWidth,
                                  scrollBarHorizontalGap |-> gapProp]],
                            onTarget, clientX, clientWidth, gapProp),
            [op |-> "pointerdown", arg |-> 0], scrollTop, scrollEvt)
    /\ UNCHANGED <<mounted, numItems>>

NextPointer ==
    \/ Mount
    \/ \E keyCode \in KeyCodes : KeyDown(keyCode)
    \/ Wheel
    \/ \E onTarget \in BOOLEAN, clientX \in PointerXs, clientWidth \in ClientWidths,
          gapProp \in GapProps : PointerDown(onTarget, clientX, clientWidth, gapProp)
    \/ \E batched \in BOOLEAN : JumpToBottom(batched)

SpecPointer == Init /\ [][NextPointer]_vars

\* isViewable on its own: one call with arguments around the parent's two
\* edges, with an epsilon that is absent, zero, positive or negative
ParentTops     == {0, 10}
ParentHeights  == {0, 100}
ChildTops      == {-5, 0, 9, 10, 95, 100, 102, 103, 110, 112, 113}
Epsilons       == {-2, 0, 2}

InitViewable ==
    /\ hasChildren = TRUE
    /\ numItems = 0
    /\ itemHeight = 1
    /\ marginTop = 0
    /\ windowHeight = 0
    /\ clientHeight = 0
    /\ scrollBySupported = TRUE
    /\ mounted = FALSE
    /\ wrapper = FALSE
    /\ forceScroll = TRUE
    /\ startIndexOverride = 0
    /\ endIndexOverride = 0
    /\ scrollTop = 0
    /\ scrollEvt = FALSE
    /\ win = NoWin
    /\ ev = [op |-> "constructor", arg |-> 0]
    /\ repeat = FALSE
    /\ preForce = TRUE
    /\ cmds = << >>
    /\ completes = 0
    /\ snaps = 0
    /\ onScrolls = << >>
    /\ pointer = NoPointer
    /\ renders = 0
    /\ cdu = << >>
    /\ \E pt \in ParentTops, ph \in ParentHeights, ct \in ChildTops,
          he \in BOOLEAN, e \in Epsilons :
          /\ (~he => e = 0)
          /\ view = [parentTop |-> pt, clientHeight |-> ph, childTop |-> ct,
                     hasEpsilon |-> he, epsilon |-> e,
                     returned |-> FALSE, result |-> FALSE]

CallIsViewable ==
    /\ ~view.returned
    /\ view' = [view EXCEPT
                   !.returned = TRUE,
                   !.result = isViewable(view.parentTop, view.clientHeight,
                                         view.childTop, view.hasEpsilon, view.epsilon)]
    /\ UNCHANGED <<props, numItems, inst, hist>>

NextViewable == CallIsViewable

SpecViewable == InitViewable /\ [][NextViewable]_vars

\* The chain of scroll events, in a host with element.scrollBy and in one
\* without it, where animateScroll assigns scrollTop. No key, wheel or pointer
\* input, so the feed stays Following.
InitChain ==
    /\ hasChildren \in BOOLEAN
    /\ numItems \in 0 .. MaxItems
    /\ (~hasChildren => numItems = 0)
    /\ itemHeight \in ItemHeights
    /\ marginTop \in MarginTops
    /\ windowHeight \in 0 .. MaxWindowHeight
    /\ clientHeight \in 0 .. windowHeight
    /\ scrollBySupported \in BOOLEAN
    /\ mounted = FALSE
    /\ wrapper = FALSE
    /\ forceScroll = TRUE
    /\ startIndexOverride = 0
    /\ endIndexOverride = 0
    /\ scrollTop = 0
    /\ scrollEvt = FALSE
    /\ win = NoWin
    /\ ev = [op |-> "constructor", arg |-> 0]
    /\ repeat = FALSE
    /\ preForce = TRUE
    /\ cmds = << >>
    /\ completes = 0
    /\ snaps = 0
    /\ onScrolls = << >>
    /\ pointer = NoPointer
    /\ view = NoView
    /\ renders = 0
    /\ cdu = << >>

NextChain ==
    \/ Mount
    \/ \E k \in {0, 1} : Update(k)
    \/ \E t \in 0 .. MaxScrollTop(numItems) : UserScroll(t)
    \/ ScrollEvent

SpecChain == InitChain /\ [][NextChain]_vars

\* the last item lies within the window of the current scroll offset
AtBottom ==
    Window(scrollTop, windowHeight, numItems, 0, 0).endIndex >= numItems - 1

\* C16: Variant A's scroll handler sets forceScroll to whether the last item
\* lies within the current window, and calls onScroll once, with true when
\* the state is then Following and false when it is Detached.
C16_ScrollReportsAtBottom ==
    ev.op = "scroll" =>
        /\ forceScroll <=> AtBottom
        /\ onScrolls = <<forceScroll>>

\* C17: for every item count, itemHeight > 0 and marginTop >= 0, the offset
\* that scrollToBottom() passes to the scroll primitive is at least the full
\* content height (itemHeight + marginTop) * itemCount.
C17_BottomOffsetCoversContent ==
    (ev.op = "scrollToBottom" /\ itemHeight > 0 /\ marginTop >= 0) =>
        \A i \in 1 .. Len(cmds) :
            cmds[i].by = "scrollToBottom" => cmds[i].offset >= ContentHeight(numItems)

\* C18: a configuration with itemHeight + marginTop <= 0, the default
\* itemHeight = 0 and marginTop = 0 included, is rejected before any window
\* computation: no render pass computes a window from a non-positive stride.
C18_NoWindowFromZeroStride ==
    win.rendered => itemHeight + marginTop > 0

\* the gap of the recorded pointer-down: the prop, or 16 without one
PointerGap ==
    IF pointer.scrollBarHorizontalGap # 0
    THEN pointer.scrollBarHorizontalGap ELSE DefaultGap

\* the outcome of the recorded pointer-down: detached with one onSnapBroken
\* when `gutter` holds, nothing at all otherwise
PointerOutcome(gutter) ==
    IF gutter
    THEN ~forceScroll /\ snaps = 1
    ELSE forceScroll = preForce /\ snaps = 0

\* C20 as stated: a pointer-down detaches (Detached, one onSnapBroken) exactly
\* when its target is the scroll container and its x-coordinate lies within
\* scrollBarHorizontalGap pixels (default 16) of the container's content edge;
\* every other pointer-down changes nothing and fires no callback.
C20_DetachWithinGapOfEdge ==
    ev.op = "pointerdown" =>
        PointerOutcome(/\ pointer.onTarget
                       /\ pointer.clientX - pointer.clientWidth <= PointerGap
                       /\ pointer.clientWidth - pointer.clientX <= PointerGap)

\* C20, amended: a pointer-down detaches (Detached, one onSnapBroken) exactly
\* when its target is the scroll container and its x-coordinate is at least
\* scrollBarHorizontalGap pixels (default 16) beyond the container's
\* clientWidth; every other pointer-down changes nothing and fires no callback.
C20_DetachGapBeyondEdge ==
    ev.op = "pointerdown" =>
        PointerOutcome(/\ pointer.onTarget
                       /\ pointer.clientX - PointerGap >= pointer.clientWidth)

\* a pointer-down on the container, further than the gap from its edge,
\* detaches a Following feed
C20_Witness ==
    /\ ev.op = "pointerdown" /\ preForce /\ ~forceScroll /\ snaps = 1
    /\ pointer.onTarget
    /\ pointer.clientX - pointer.clientWidth > PointerGap

\* the returned call had these arguments, with an explicit epsilon
ViewCall(parentTop, parentBottom, childTop, epsilon) ==
    /\ view.returned
    /\ view.parentTop = parentTop
    /\ view.parentTop + view.clientHeight = parentBottom
    /\ view.childTop = childTop
    /\ view.hasEpsilon /\ view.epsilon = epsilon

\* C21: isViewable(parentTop, parentBottom, childTop, epsilon) is true exactly
\* when childTop >= parentTop and (parentBottom - childTop) + epsilon >= 0,
\* a missing epsilon counting as 0 and an explicit one as it is; (0,100,95,2)
\* is true, (0,100,103,2) is false and (0,100,-5,0) is false.
C21_IsViewable ==
    /\ view.returned =>
         LET parentBottom == view.parentTop + view.clientHeight
             epsilon == IF view.hasEpsilon THEN view.epsilon ELSE 0
         IN  view.result <=> (/\ view.childTop >= view.parentTop
                              /\ (parentBottom - view.childTop) + epsilon >= 0)
    /\ ViewCall(0, 100, 95, 2) => view.result
    /\ ViewCall(0, 100, 103, 2) => ~view.result
    /\ ViewCall(0, 100, -5, 0) => ~view.result

\* a child top 2 pixels below the parent's bottom is viewable with epsilon 2
C21_Witness ==
    ViewCall(0, 100, 102, 2) /\ view.result

\* C22: with the container attached and the feed Following, the chain
\* scroll event -> forceUpdate -> scrollToBottom -> scroll event stops, and
\* when it has stopped (the scroll event is handled and its command raises no
\* further one) the container is at its maximum scroll offset.
C22_ChainEndsAtBottom ==
    (ev.op = "scroll" /\ wrapper /\ forceScroll /\ ~scrollEvt) =>
        scrollTop = MaxScrollTop(numItems)

\* C22, its termination: the chain's commands never move the container away from the bottom, and
\* each one that raises a further scroll event has moved it towards the bottom
C22_ChainProgress ==
    [][(ev'.op = "scroll" /\ ev'.arg = 0) =>
          /\ scrollTop' >= scrollTop
          /\ scrollEvt' => scrollTop' > scrollTop]_vars

====
